---- MODULE Spec2Model ----
(***************************************************************************)
(* A model of the sleep/wake operation (stepper/set_sleep_mode.rs) and of  *)
(* the A4988 driver's type-state composition (drivers/a4988.rs).           *)
(*                                                                         *)
(* Spec        one SetSleepModeFuture, its caller (poll, wait, release)    *)
(*             and the pin/timer collaborators, whose outcomes are inputs. *)
(* FairSpec    Spec plus the assumption that the timer waited on by the    *)
(*             busy loop eventually stops reporting would-block.           *)
(* SpecDriver  the A4988 builder: which trait impls apply to which driver  *)
(*             type, and apply_mode_config on the mode pins.               *)
(***************************************************************************)
EXTENDS Integers, Sequences, FiniteSets, TLC

VARIABLES
    fut,        \* the SetSleepModeFuture: sleep_mode_enabled, driver, timer, state
    TIMER_HZ,   \* the const generic TIMER_HZ of the future's type
    pc,         \* the caller: "idle", "inWait" (inside wait()), "released"
    last,       \* what the most recent poll call did and returned
    waitRet,    \* what the most recent wait() returned ("None" before it returns)
    released,   \* the pair release() returned (<<>> before release)
    supplied,   \* the driver and timer given to new()
    hist,       \* what has happened to this instance since new()
    faults,     \* failures the collaborators have produced so far
    a4988,      \* the A4988 driver value: one entry per pin slot
    given,      \* the capabilities whose pins have been handed to the driver
    lastCall    \* the most recent builder / mode call and its outcome

vars == <<fut, TIMER_HZ, pc, last, waitRet, released, supplied, hist, faults,
          a4988, given, lastCall>>

futVars == <<fut, TIMER_HZ, pc, last, waitRet, released, supplied, hist, faults>>
drvVars == <<a4988, given, lastCall>>

(***************************************************************************)
(* Bounds of the model.                                                    *)
(***************************************************************************)
\* failures (pin, timer start, timer wait, pin access) injected per run
MaxFaults == 2
\* the driver/timer pairs and the pin bundles a caller may supply: 1..MaxIds
MaxIds == 2

Ids == 1..MaxIds

\* the timer frequencies the future is instantiated at: 1 MHz and 3 MHz, whose
\* ticks are longer than SETUP_TIME (the tick of 3 MHz divides neither
\* constant), and 1 GHz, the base of the constants themselves
TimerHzSet == {1000000, 3000000, 1000000000}

(***************************************************************************)
(* Timing constants of the SetSleepMode implementation, in nanoseconds.    *)
(***************************************************************************)
SETUP_TIME == 200
WAKE_UP_TIME == 1000000

NANOS_HZ == 1000000000

RECURSIVE Gcd(_, _)
Gcd(a, b) == IF b = 0 THEN a ELSE Gcd(b, a % b)

\* Duration::convert from nanoseconds to ticks at hz: the tick count is
\* multiplied by the reduced numerator and divided (integer division) by the
\* reduced denominator of hz / 10^9.
Convert(ns, hz) ==
    LET g == Gcd(hz, NANOS_HZ)
    IN  (ns * (hz \div g)) \div (NANOS_HZ \div g)

(***************************************************************************)
(* The collaborators' outcomes for one poll call.                          *)
(*   acc : driver.sleep()            "ok" | "err"                          *)
(*   pin : set_low() / set_high()    "ok" | "err"                          *)
(*   st  : timer.start(ticks)        "ok" | "err"                          *)
(*   w   : timer.wait()              "Ok" | "WouldBlock" | "Other"         *)
(***************************************************************************)
Inputs == [acc : {"ok", "err"}, pin : {"ok", "err"}, st : {"ok", "err"},
           w : {"Ok", "WouldBlock", "Other"}]

States == {"Initial", "WakingUp", "SleepModeSet", "Finished"}

Results == {"Pending", "ReadyOk", "ErrPinUnavailable", "ErrPin", "ErrTimer"}

IsErr(res) == res \in {"ErrPinUnavailable", "ErrPin", "ErrTimer"}

\* SetSleepModeFuture::new
new(sleep_mode_enabled, driver, timer) ==
    [sleep_mode_enabled |-> sleep_mode_enabled,
     driver |-> driver,
     timer |-> timer,
     state |-> "Initial"]

\* timer.start(ticks) succeeding: the timer counts down the given duration
TimerStarted(timer, name, ticks) ==
    [timer EXCEPT !.st = "running", !.dur = name, !.ticks = ticks]

\* timer.wait(): ready leaves the timer expired, an error leaves it faulted,
\* would-block leaves it as it is
TimerWaited(timer, w) ==
    CASE w = "Ok" -> [timer EXCEPT !.st = "expired"]
      [] w = "Other" -> [timer EXCEPT !.st = "faulted"]
      [] OTHER -> timer

\* The outcome of one poll call: the future afterwards, the value returned,
\* the pin writes made (level, ok), the timer starts made (dur, ticks, ok)
\* and what timer.wait() returned ("none" when it was not called).
Outcome(self, res, wrote, started, waited) ==
    [self |-> self, res |-> res, wrote |-> wrote, started |-> started,
     waited |-> waited]

\* pollInitial with set_low and set_high exchanged
pollInitial_LevelsSwapped(self, in) ==
    LET level == IF self.sleep_mode_enabled THEN "High" ELSE "Low"
        next  == IF self.sleep_mode_enabled THEN "SleepModeSet" ELSE "WakingUp"
        ticks == Convert(SETUP_TIME, TIMER_HZ)
        set   == [self EXCEPT !.driver.sleep = level, !.state = next]
    IN  IF in.acc = "err"
        THEN Outcome(self, "ErrPinUnavailable", <<>>, <<>>, "none")
        ELSE IF in.pin = "err"
        THEN Outcome(self, "ErrPin", <<[level |-> level, ok |-> FALSE]>>, <<>>, "none")
        ELSE IF in.st = "err"
        THEN Outcome(set, "ErrTimer", <<[level |-> level, ok |-> TRUE]>>,
                     <<[dur |-> "SETUP_TIME", ticks |-> ticks, ok |-> FALSE]>>, "none")
        ELSE Outcome([set EXCEPT !.timer = TimerStarted(@, "SETUP_TIME", ticks)],
                     "Pending", <<[level |-> level, ok |-> TRUE]>>,
                     <<[dur |-> "SETUP_TIME", ticks |-> ticks, ok |-> TRUE]>>, "none")

\* pollInitial with the result of timer.start dropped instead of propagated
pollInitial_StartErrorIgnored(self, in) ==
    LET level == IF self.sleep_mode_enabled THEN "Low" ELSE "High"
        next  == IF self.sleep_mode_enabled THEN "SleepModeSet" ELSE "WakingUp"
        ticks == Convert(SETUP_TIME, TIMER_HZ)
        set   == [self EXCEPT !.driver.sleep = level, !.state = next]
    IN  IF in.acc = "err"
        THEN Outcome(self, "ErrPinUnavailable", <<>>, <<>>, "none")
        ELSE IF in.pin = "err"
        THEN Outcome(self, "ErrPin", <<[level |-> level, ok |-> FALSE]>>, <<>>, "none")
        ELSE IF in.st = "err"
        THEN Outcome(set, "Pending", <<[level |-> level, ok |-> TRUE]>>,
                     <<[dur |-> "SETUP_TIME", ticks |-> ticks, ok |-> FALSE]>>, "none")
        ELSE Outcome([set EXCEPT !.timer = TimerStarted(@, "SETUP_TIME", ticks)],
                     "Pending", <<[level |-> level, ok |-> TRUE]>>,
                     <<[dur |-> "SETUP_TIME", ticks |-> ticks, ok |-> TRUE]>>, "none")

\* pollInitial advancing the state only once the timer has been started
pollInitial_AdvancesAfterStart(self, in) ==
    LET level == IF self.sleep_mode_enabled THEN "Low" ELSE "High"
        next  == IF self.sleep_mode_enabled THEN "SleepModeSet" ELSE "WakingUp"
        ticks == Convert(SETUP_TIME, TIMER_HZ)
        set   == [self EXCEPT !.driver.sleep = level]
    IN  IF in.acc = "err"
        THEN Outcome(self, "ErrPinUnavailable", <<>>, <<>>, "none")
        ELSE IF in.pin = "err"
        THEN Outcome(self, "ErrPin", <<[level |-> level, ok |-> FALSE]>>, <<>>, "none")
        ELSE IF in.st = "err"
        THEN Outcome(set, "ErrTimer", <<[level |-> level, ok |-> TRUE]>>,
                     <<[dur |-> "SETUP_TIME", ticks |-> ticks, ok |-> FALSE]>>, "none")
        ELSE Outcome([set EXCEPT !.timer = TimerStarted(@, "SETUP_TIME", ticks),
                                 !.state = next],
                     "Pending", <<[level |-> level, ok |-> TRUE]>>,
                     <<[dur |-> "SETUP_TIME", ticks |-> ticks, ok |-> TRUE]>>, "none")

\* poll, State::Initial
pollInitial(self, in) ==
    LET level == IF self.sleep_mode_enabled THEN "Low" ELSE "High"
        next  == IF self.sleep_mode_enabled THEN "SleepModeSet" ELSE "WakingUp"
        ticks == Convert(SETUP_TIME, TIMER_HZ)
        write(ok) == <<[level |-> level, ok |-> ok]>>
        start(ok) == <<[dur |-> "SETUP_TIME", ticks |-> ticks, ok |-> ok]>>
        set   == [self EXCEPT !.driver.sleep = level, !.state = next]
    IN  IF in.acc = "err"
        THEN Outcome(self, "ErrPinUnavailable", <<>>, <<>>, "none")
        ELSE IF in.pin = "err"
        THEN Outcome(self, "ErrPin", write(FALSE), <<>>, "none")
        ELSE IF in.st = "err"
        THEN Outcome(set, "ErrTimer", write(TRUE), start(FALSE), "none")
        ELSE Outcome([set EXCEPT !.timer = TimerStarted(@, "SETUP_TIME", ticks)],
                     "Pending", write(TRUE), start(TRUE), "none")

\* pollWakingUp going straight to Finished once the setup timer is ready
pollWakingUp_Finishes(self, in) ==
    LET ticks  == Convert(WAKE_UP_TIME, TIMER_HZ)
        start(ok) == <<[dur |-> "WAKE_UP_TIME", ticks |-> ticks, ok |-> ok]>>
        waited == [self EXCEPT !.timer = TimerWaited(@, in.w)]
    IN  CASE in.w = "Ok" ->
               IF in.st = "err"
               THEN Outcome(waited, "ErrTimer", <<>>, start(FALSE), "Ok")
               ELSE Outcome([waited EXCEPT
                                !.timer = TimerStarted(@, "WAKE_UP_TIME", ticks),
                                !.state = "Finished"],
                            "ReadyOk", <<>>, start(TRUE), "Ok")
          [] in.w = "Other" ->
               Outcome([waited EXCEPT !.state = "Finished"], "ErrTimer",
                       <<>>, <<>>, "Other")
          [] OTHER -> Outcome(waited, "Pending", <<>>, <<>>, "WouldBlock")

\* pollWakingUp that does not start the timer for WAKE_UP_TIME
pollWakingUp_NoWakeUpTimer(self, in) ==
    LET waited == [self EXCEPT !.timer = TimerWaited(@, in.w)]
    IN  CASE in.w = "Ok" ->
               Outcome([waited EXCEPT !.state = "SleepModeSet"], "ReadyOk",
                       <<>>, <<>>, "Ok")
          [] in.w = "Other" ->
               Outcome([waited EXCEPT !.state = "Finished"], "ErrTimer",
                       <<>>, <<>>, "Other")
          [] OTHER -> Outcome(waited, "Pending", <<>>, <<>>, "WouldBlock")

\* pollWakingUp restarting the setup timer whenever it is not ready yet
pollWakingUp_RestartsOnWouldBlock(self, in) ==
    LET ticks  == Convert(WAKE_UP_TIME, TIMER_HZ)
        setup  == Convert(SETUP_TIME, TIMER_HZ)
        start(ok) == <<[dur |-> "WAKE_UP_TIME", ticks |-> ticks, ok |-> ok]>>
        waited == [self EXCEPT !.timer = TimerWaited(@, in.w)]
    IN  CASE in.w = "Ok" ->
               IF in.st = "err"
               THEN Outcome(waited, "ErrTimer", <<>>, start(FALSE), "Ok")
               ELSE Outcome([waited EXCEPT
                                !.timer = TimerStarted(@, "WAKE_UP_TIME", ticks),
                                !.state = "SleepModeSet"],
                            "ReadyOk", <<>>, start(TRUE), "Ok")
          [] in.w = "Other" ->
               Outcome([waited EXCEPT !.state = "Finished"], "ErrTimer",
                       <<>>, <<>>, "Other")
          [] OTHER ->
               Outcome([waited EXCEPT !.timer = TimerStarted(@, "SETUP_TIME", setup)],
                       "Pending", <<>>,
                       <<[dur |-> "SETUP_TIME", ticks |-> setup, ok |-> TRUE]>>,
                       "WouldBlock")

\* pollWakingUp returning a timer error without moving to Finished
pollWakingUp_StaysOnError(self, in) ==
    LET ticks  == Convert(WAKE_UP_TIME, TIMER_HZ)
        start(ok) == <<[dur |-> "WAKE_UP_TIME", ticks |-> ticks, ok |-> ok]>>
        waited == [self EXCEPT !.timer = TimerWaited(@, in.w)]
    IN  CASE in.w = "Ok" ->
               IF in.st = "err"
               THEN Outcome(waited, "ErrTimer", <<>>, start(FALSE), "Ok")
               ELSE Outcome([waited EXCEPT
                                !.timer = TimerStarted(@, "WAKE_UP_TIME", ticks),
                                !.state = "SleepModeSet"],
                            "ReadyOk", <<>>, start(TRUE), "Ok")
          [] in.w = "Other" -> Outcome(waited, "ErrTimer", <<>>, <<>>, "Other")
          [] OTHER -> Outcome(waited, "Pending", <<>>, <<>>, "WouldBlock")

\* poll, State::WakingUp
pollWakingUp(self, in) ==
    LET ticks  == Convert(WAKE_UP_TIME, TIMER_HZ)
        start(ok) == <<[dur |-> "WAKE_UP_TIME", ticks |-> ticks, ok |-> ok]>>
        waited == [self EXCEPT !.timer = TimerWaited(@, in.w)]
    IN  CASE in.w = "Ok" ->
               IF in.st = "err"
               THEN Outcome(waited, "ErrTimer", <<>>, start(FALSE), "Ok")
               ELSE Outcome([waited EXCEPT
                                !.timer = TimerStarted(@, "WAKE_UP_TIME", ticks),
                                !.state = "SleepModeSet"],
                            "ReadyOk", <<>>, start(TRUE), "Ok")
          [] in.w = "Other" ->
               Outcome([waited EXCEPT !.state = "Finished"], "ErrTimer",
                       <<>>, <<>>, "Other")
          [] OTHER -> Outcome(waited, "Pending", <<>>, <<>>, "WouldBlock")

\* pollSleepModeSet reporting done without the timer having reported ready
pollSleepModeSet_DoneOnWouldBlock(self, in) ==
    LET waited == [self EXCEPT !.timer = TimerWaited(@, in.w)]
    IN  CASE in.w = "Other" ->
               Outcome([waited EXCEPT !.state = "Finished"], "ErrTimer",
                       <<>>, <<>>, "Other")
          [] OTHER ->
               Outcome([waited EXCEPT !.state = "Finished"], "ReadyOk",
                       <<>>, <<>>, in.w)

\* pollSleepModeSet treating a timer error like would-block
pollSleepModeSet_WaitErrorAbsorbed(self, in) ==
    LET waited == [self EXCEPT !.timer = TimerWaited(@, in.w)]
    IN  CASE in.w = "Ok" ->
               Outcome([waited EXCEPT !.state = "Finished"], "ReadyOk",
                       <<>>, <<>>, "Ok")
          [] OTHER -> Outcome(waited, "Pending", <<>>, <<>>, in.w)

\* poll, State::SleepModeSet
pollSleepModeSet(self, in) ==
    LET waited == [self EXCEPT !.timer = TimerWaited(@, in.w)]
    IN  CASE in.w = "Ok" ->
               Outcome([waited EXCEPT !.state = "Finished"], "ReadyOk",
                       <<>>, <<>>, "Ok")
          [] in.w = "Other" ->
               Outcome([waited EXCEPT !.state = "Finished"], "ErrTimer",
                       <<>>, <<>>, "Other")
          [] OTHER -> Outcome(waited, "Pending", <<>>, <<>>, "WouldBlock")

\* pollFinished starting the operation over
pollFinished_Restarts(self, in) ==
    Outcome([self EXCEPT !.state = "Initial"], "ReadyOk", <<>>, <<>>, "none")

\* pollFinished still asking the timer
pollFinished_WaitsAgain(self, in) ==
    Outcome([self EXCEPT !.timer = TimerWaited(@, in.w)],
            IF in.w = "WouldBlock" THEN "Pending" ELSE "ReadyOk",
            <<>>, <<>>, in.w)

\* poll, State::Finished
pollFinished(self, in) == Outcome(self, "ReadyOk", <<>>, <<>>, "none")

\* SetSleepModeFuture::poll
poll(self, in) ==
    CASE self.state = "Initial" -> pollInitial(self, in)
      [] self.state = "WakingUp" -> pollWakingUp(self, in)
      [] self.state = "SleepModeSet" -> pollSleepModeSet(self, in)
      [] self.state = "Finished" -> pollFinished(self, in)

\* the loop of wait() with its test inverted: it returns on Poll::Pending
waitTurn_Inverted(res) ==
    IF res = "Pending"
    THEN [pc |-> "idle", ret |-> res]
    ELSE [pc |-> "inWait", ret |-> "None"]

\* the loop of wait() returning Ok(()) whatever Poll::Ready carries
waitTurn_DropsResult(res) ==
    IF res # "Pending"
    THEN [pc |-> "idle", ret |-> "ReadyOk"]
    ELSE [pc |-> "inWait", ret |-> "None"]

\* one turn of the loop in SetSleepModeFuture::wait, given the poll's result:
\* return the result carried by Poll::Ready, go round again on Poll::Pending
waitTurn(res) ==
    IF res # "Pending"
    THEN [pc |-> "idle", ret |-> res]
    ELSE [pc |-> "inWait", ret |-> "None"]

\* release that drives the sleep pin high before handing the driver back
release_WritesPin(self) == <<[self.driver EXCEPT !.sleep = "High"], self.timer>>

\* SetSleepModeFuture::release
release(self) == <<self.driver, self.timer>>

(***************************************************************************)
(* History of one instance, kept for the properties.                       *)
(***************************************************************************)
NoPoll == [pre |-> "None", res |-> "None", wrote |-> <<>>, started |-> <<>>,
           waited |-> "none", byWait |-> FALSE, before |-> <<>>]

NoHist == [pinWrites |-> <<>>,      \* every pin write made, in order
           starts |-> <<>>,         \* every timer.start made, in order
           waitOks |-> 0,           \* timer.wait() calls that returned ready
           waitErrs |-> 0,          \* timer.wait() calls that returned an error
           visited |-> <<"Initial">>, \* the states passed through, in order
           reportedOk |-> FALSE,    \* some poll has returned Ready(Ok)
           reportedErr |-> FALSE,   \* some poll has returned Ready(Err)
           okAfterErr |-> FALSE,    \* Ready(Ok) was returned after a Ready(Err)
           pendingAfterOk |-> FALSE,\* Pending was returned after a Ready(Ok)
           oks |-> 0,               \* Ready(Ok) results so far (0, 1, 2 = two or more)
           polls |-> 0,             \* poll calls so far (same)
           turns |-> 0]             \* loop turns of the current wait() (same)

Sat(n) == IF n >= 2 THEN 2 ELSE n + 1

Record(o, byWait) ==
    [pinWrites  |-> hist.pinWrites \o o.wrote,
     starts     |-> hist.starts \o o.started,
     waitOks    |-> hist.waitOks + (IF o.waited = "Ok" THEN 1 ELSE 0),
     waitErrs   |-> hist.waitErrs + (IF o.waited = "Other" THEN 1 ELSE 0),
     visited    |-> IF o.self.state = fut.state THEN hist.visited
                    ELSE Append(hist.visited, o.self.state),
     reportedOk |-> hist.reportedOk \/ o.res = "ReadyOk",
     reportedErr |-> hist.reportedErr \/ IsErr(o.res),
     okAfterErr |-> hist.okAfterErr \/ (hist.reportedErr /\ o.res = "ReadyOk"),
     pendingAfterOk |-> hist.pendingAfterOk
                        \/ (hist.reportedOk /\ o.res = "Pending"),
     oks        |-> IF o.res = "ReadyOk" THEN Sat(hist.oks) ELSE hist.oks,
     polls      |-> Sat(hist.polls),
     turns      |-> IF byWait THEN Sat(hist.turns) ELSE hist.turns]

\* a collaborator may fail only while the run's failure budget lasts
Allowed(in) ==
    faults < MaxFaults
    \/ (in.acc = "ok" /\ in.pin = "ok" /\ in.st = "ok" /\ in.w # "Other")

\* the effect of one poll call on the model's state
Polled(in, byWait) ==
    LET o == poll(fut, in)
    IN  /\ Allowed(in)
        /\ fut' = o.self
        /\ last' = [pre |-> fut.state, res |-> o.res, wrote |-> o.wrote,
                    started |-> o.started, waited |-> o.waited,
                    byWait |-> byWait, before |-> <<fut>>]
        /\ hist' = Record(o, byWait)
        /\ faults' = IF IsErr(o.res) THEN faults + 1 ELSE faults

(***************************************************************************)
(* The A4988 driver.  A pin slot holds the placeholder () or an output     *)
(* pin; the driver's type is which slots hold which.                       *)
(***************************************************************************)
Levels == {"Low", "High"}

\* the placeholder ()
Unit == [present |-> FALSE, id |-> 0, level |-> "Z"]

\* an output pin a caller owns, at the level it currently drives; pin j of
\* bundle k has the identity 10 * k + j
Pin(k, j, level) == [present |-> TRUE, id |-> 10 * k + j, level |-> level]

IsUnit(slot) == ~slot.present
IsOutputPin(slot) == slot.present

\* A4988::new
NewDriver == [enable |-> Unit, fault |-> Unit, sleep |-> Unit, reset |-> Unit,
              mode0 |-> Unit, mode1 |-> Unit, mode2 |-> Unit, step |-> Unit,
              dir |-> Unit]

\* The types each impl block is written for.
ImplEnableStepModeControl(d) ==
    /\ IsUnit(d.enable) /\ IsUnit(d.fault) /\ IsUnit(d.sleep)
    /\ IsUnit(d.reset) /\ IsUnit(d.mode0) /\ IsUnit(d.mode1) /\ IsUnit(d.mode2)

ImplSetStepMode(d) ==
    /\ IsUnit(d.enable) /\ IsUnit(d.fault) /\ IsUnit(d.sleep)
    /\ IsOutputPin(d.reset) /\ IsOutputPin(d.mode0)
    /\ IsOutputPin(d.mode1) /\ IsOutputPin(d.mode2)

ImplEnableDirectionControl(d) ==
    /\ IsUnit(d.enable) /\ IsUnit(d.fault) /\ IsUnit(d.sleep)
    /\ IsUnit(d.dir)

\* the impl of SetDirection written for any Dir, its where clause left out
ImplSetDirection_AnyDir(d) ==
    IsUnit(d.enable) /\ IsUnit(d.fault) /\ IsUnit(d.sleep)

ImplSetDirection(d) ==
    /\ IsUnit(d.enable) /\ IsUnit(d.fault) /\ IsUnit(d.sleep)
    /\ IsOutputPin(d.dir)

ImplEnableStepControl(d) ==
    /\ IsUnit(d.enable) /\ IsUnit(d.fault) /\ IsUnit(d.sleep)
    /\ IsUnit(d.step)

ImplStep(d) ==
    /\ IsUnit(d.enable) /\ IsUnit(d.fault) /\ IsUnit(d.sleep)
    /\ IsOutputPin(d.step)

ImplEnableSleepModeControl(d) ==
    /\ IsUnit(d.enable) /\ IsUnit(d.fault) /\ IsOutputPin(d.sleep)
    /\ IsUnit(d.reset) /\ IsUnit(d.mode0) /\ IsUnit(d.mode1) /\ IsUnit(d.mode2)
    /\ IsUnit(d.step) /\ IsUnit(d.dir)

ImplSetSleepMode(d) ==
    /\ IsUnit(d.enable) /\ IsUnit(d.fault) /\ IsOutputPin(d.sleep)
    /\ IsUnit(d.reset) /\ IsUnit(d.mode0) /\ IsUnit(d.mode1) /\ IsUnit(d.mode2)
    /\ IsUnit(d.step) /\ IsUnit(d.dir)

\* the builder methods: every slot but the new pins is moved over as it is
enable_step_mode_control(self, reset, mode0, mode1, mode2) ==
    [enable |-> self.enable, fault |-> self.fault, sleep |-> self.sleep,
     reset |-> reset, mode0 |-> mode0, mode1 |-> mode1, mode2 |-> mode2,
     step |-> self.step, dir |-> self.dir]

enable_direction_control(self, dir) ==
    [enable |-> self.enable, fault |-> self.fault, sleep |-> self.sleep,
     reset |-> self.reset, mode0 |-> self.mode0, mode1 |-> self.mode1,
     mode2 |-> self.mode2, step |-> self.step, dir |-> dir]

enable_step_control(self, step) ==
    [enable |-> self.enable, fault |-> self.fault, sleep |-> self.sleep,
     reset |-> self.reset, mode0 |-> self.mode0, mode1 |-> self.mode1,
     mode2 |-> self.mode2, step |-> step, dir |-> self.dir]

enable_sleep_mode_control(self, sleep) ==
    [enable |-> self.enable, fault |-> self.fault, sleep |-> sleep,
     reset |-> self.reset, mode0 |-> self.mode0, mode1 |-> self.mode1,
     mode2 |-> self.mode2, step |-> self.step, dir |-> self.dir]

StepMode16 == {"Full", "M2", "M4", "M8", "M16"}

\* the mode table with the M8 row a copy of the M4 row
ModeTable_M8AsM4(step_mode) ==
    CASE step_mode = "Full" -> <<"Low", "Low", "Low">>
      [] step_mode = "M2"   -> <<"High", "Low", "Low">>
      [] step_mode = "M4"   -> <<"Low", "High", "Low">>
      [] step_mode = "M8"   -> <<"Low", "High", "Low">>
      [] step_mode = "M16"  -> <<"High", "High", "High">>

\* the mode table of apply_mode_config: (mode0, mode1, mode2)
ModeTable(step_mode) ==
    CASE step_mode = "Full" -> <<"Low", "Low", "Low">>
      [] step_mode = "M2"   -> <<"High", "Low", "Low">>
      [] step_mode = "M4"   -> <<"Low", "High", "Low">>
      [] step_mode = "M8"   -> <<"High", "High", "Low">>
      [] step_mode = "M16"  -> <<"High", "High", "High">>

ModePins == <<"mode0", "mode1", "mode2">>

\* apply_mode_config dropping the result of each write but the last to fail:
\* the pins after a failing one are written all the same
apply_mode_config_WritesOn(self, step_mode, failAt) ==
    LET t == ModeTable(step_mode)
        lvl(i) == IF i # failAt THEN t[i] ELSE self[ModePins[i]].level
    IN  [self  |-> [self EXCEPT !.mode0.level = lvl(1), !.mode1.level = lvl(2),
                                !.mode2.level = lvl(3)],
         res   |-> IF failAt = 0 THEN "Ok" ELSE "Err",
         wrote |-> [i \in 1..3 |-> [pin |-> ModePins[i], level |-> t[i],
                                    ok |-> i # failAt]]]

\* apply_mode_config writing nothing once it knows a write will fail, so
\* that the pins keep the combination they had
apply_mode_config_AllOrNothing(self, step_mode, failAt) ==
    LET t == ModeTable(step_mode)
        n == IF failAt = 0 THEN 3 ELSE failAt
        lvl(i) == IF failAt = 0 THEN t[i] ELSE self[ModePins[i]].level
    IN  [self  |-> [self EXCEPT !.mode0.level = lvl(1), !.mode1.level = lvl(2),
                                !.mode2.level = lvl(3)],
         res   |-> IF failAt = 0 THEN "Ok" ELSE "Err",
         wrote |-> [i \in 1..n |-> [pin |-> ModePins[i], level |-> t[i],
                                    ok |-> i # failAt]]]

\* SetStepMode::apply_mode_config.  failAt is the write that fails (1, 2 or
\* 3; 0 when none does): the writes before it are made, it is attempted, the
\* writes after it are not.  A failed write leaves its pin as it was.
apply_mode_config(self, step_mode, failAt) ==
    LET t == ModeTable(step_mode)
        n == IF failAt = 0 THEN 3 ELSE failAt
        done(i) == i <= n /\ i # failAt
        lvl(i) == IF done(i) THEN t[i] ELSE self[ModePins[i]].level
    IN  [self  |-> [self EXCEPT !.mode0.level = lvl(1), !.mode1.level = lvl(2),
                                !.mode2.level = lvl(3)],
         res   |-> IF failAt = 0 THEN "Ok" ELSE "Err",
         wrote |-> [i \in 1..n |-> [pin |-> ModePins[i], level |-> t[i],
                                    ok |-> i # failAt]]]

NoCall == [op |-> "new", accepted |-> TRUE, res |-> "None", wrote |-> <<>>,
           mode |-> "None", before |-> <<>>]

\* a call the type checker accepts (res, wrote, mode: what apply_mode_config
\* returned, wrote and was asked for), and one it rejects
Accepted(op, res, wrote, mode) ==
    [op |-> op, accepted |-> TRUE, res |-> res, wrote |-> wrote, mode |-> mode,
     before |-> <<a4988>>]
Rejected(op) ==
    [op |-> op, accepted |-> FALSE, res |-> "None", wrote |-> <<>>,
     mode |-> "None", before |-> <<a4988>>]

(***************************************************************************)
(* The future and its caller.                                              *)
(***************************************************************************)
InitFuture ==
    /\ TIMER_HZ \in TimerHzSet
    /\ \E b \in BOOLEAN, k \in Ids, lvl \in {"Low", "High"} :
          LET driver == [id |-> k, sleep |-> lvl]
              timer  == [id |-> k, st |-> "idle", dur |-> "none", ticks |-> 0]
          IN  /\ fut = new(b, driver, timer)
              /\ supplied = <<driver, timer>>
    /\ pc = "idle"
    /\ last = NoPoll
    /\ waitRet = "None"
    /\ released = <<>>
    /\ hist = NoHist
    /\ faults = 0

Init ==
    /\ InitFuture
    /\ a4988 = NewDriver
    /\ given = {}
    /\ lastCall = NoCall

\* the caller calls poll once
Poll ==
    /\ pc = "idle"
    /\ \E in \in Inputs : Polled(in, FALSE)
    /\ UNCHANGED <<TIMER_HZ, pc, waitRet, released, supplied>>
    /\ UNCHANGED drvVars

\* the caller calls wait()
WaitCall ==
    /\ pc = "idle"
    /\ pc' = "inWait"
    /\ waitRet' = "None"
    /\ hist' = [hist EXCEPT !.turns = 0]
    /\ UNCHANGED <<fut, TIMER_HZ, last, released, supplied, faults>>
    /\ UNCHANGED drvVars

\* one turn of wait()'s loop with the given collaborator outcomes
WaitTurnWith(in) ==
    /\ pc = "inWait"
    /\ Polled(in, TRUE)
    /\ LET t == waitTurn(poll(fut, in).res)
       IN  pc' = t.pc /\ waitRet' = t.ret
    /\ UNCHANGED <<TIMER_HZ, released, supplied>>
    /\ UNCHANGED drvVars

WaitTurn == \E in \in Inputs : WaitTurnWith(in)

\* the caller releases the future
Release ==
    /\ pc = "idle"
    /\ pc' = "released"
    /\ released' = release(fut)
    /\ UNCHANGED <<fut, TIMER_HZ, last, waitRet, supplied, hist, faults>>
    /\ UNCHANGED drvVars

Next == Poll \/ WaitCall \/ WaitTurn \/ Release

Spec == Init /\ [][Next]_vars

\* a turn of the busy loop in which the timer does not report would-block
WaitTurnTimerDone == \E in \in Inputs : in.w # "WouldBlock" /\ WaitTurnWith(in)

FairSpec == Spec /\ WF_vars(WaitTurnTimerDone)

(***************************************************************************)
(* The A4988 builder and its caller.  A call on a driver whose type has no *)
(* impl of the trait is rejected when the program is built: it leaves the  *)
(* driver as it is.                                                        *)
(***************************************************************************)
PARKED == new(TRUE, [id |-> 1, sleep |-> "Low"],
              [id |-> 1, st |-> "idle", dur |-> "none", ticks |-> 0])

InitDriver ==
    /\ fut = PARKED
    /\ supplied = <<PARKED.driver, PARKED.timer>>
    /\ TIMER_HZ = NANOS_HZ
    /\ pc = "idle"
    /\ last = NoPoll
    /\ waitRet = "None"
    /\ released = <<>>
    /\ hist = NoHist
    /\ faults = 0
    /\ a4988 = NewDriver
    /\ given = {}
    /\ lastCall = NoCall

EnableStepModeControl ==
    /\ IF ImplEnableStepModeControl(a4988)
       THEN \E k \in Ids, l0, l1, l2 \in Levels :
               /\ a4988' = enable_step_mode_control(a4988, Pin(k, 0, "Low"),
                              Pin(k, 1, l0), Pin(k, 2, l1), Pin(k, 3, l2))
               /\ given' = given \cup {"StepMode"}
               /\ lastCall' = Accepted("enable_step_mode_control", "None", <<>>, "None")
       ELSE /\ lastCall' = Rejected("enable_step_mode_control")
            /\ UNCHANGED <<a4988, given>>
    /\ UNCHANGED futVars

EnableDirectionControl ==
    /\ IF ImplEnableDirectionControl(a4988)
       THEN \E i \in Ids :
               /\ a4988' = enable_direction_control(a4988, Pin(i, 4, "Low"))
               /\ given' = given \cup {"Direction"}
               /\ lastCall' = Accepted("enable_direction_control", "None", <<>>, "None")
       ELSE /\ lastCall' = Rejected("enable_direction_control")
            /\ UNCHANGED <<a4988, given>>
    /\ UNCHANGED futVars

EnableStepControl ==
    /\ IF ImplEnableStepControl(a4988)
       THEN \E i \in Ids :
               /\ a4988' = enable_step_control(a4988, Pin(i, 5, "Low"))
               /\ given' = given \cup {"Step"}
               /\ lastCall' = Accepted("enable_step_control", "None", <<>>, "None")
       ELSE /\ lastCall' = Rejected("enable_step_control")
            /\ UNCHANGED <<a4988, given>>
    /\ UNCHANGED futVars

EnableSleepModeControl ==
    /\ IF ImplEnableSleepModeControl(a4988)
       THEN \E i \in Ids :
               /\ a4988' = enable_sleep_mode_control(a4988, Pin(i, 6, "Low"))
               /\ given' = given \cup {"SleepMode"}
               /\ lastCall' = Accepted("enable_sleep_mode_control", "None", <<>>, "None")
       ELSE /\ lastCall' = Rejected("enable_sleep_mode_control")
            /\ UNCHANGED <<a4988, given>>
    /\ UNCHANGED futVars

\* the caller selects a microstep mode
ApplyModeConfig ==
    /\ IF ImplSetStepMode(a4988)
       THEN \E step_mode \in StepMode16, failAt \in 0..3 :
               LET o == apply_mode_config(a4988, step_mode, failAt)
               IN  /\ a4988' = o.self
                   /\ lastCall' = Accepted("apply_mode_config", o.res, o.wrote,
                                           step_mode)
       ELSE /\ lastCall' = Rejected("apply_mode_config")
            /\ UNCHANGED a4988
    /\ UNCHANGED <<given>>
    /\ UNCHANGED futVars

\* the caller asks for the pin behind a capability: dir(), step(), sleep()
Access(op, impl) ==
    /\ lastCall' = IF impl THEN Accepted(op, "Ok", <<>>, "None") ELSE Rejected(op)
    /\ UNCHANGED <<a4988, given>>
    /\ UNCHANGED futVars

AccessDir == Access("dir", ImplSetDirection(a4988))
AccessStep == Access("step", ImplStep(a4988))
AccessSleep == Access("sleep", ImplSetSleepMode(a4988))

NextDriver ==
    \/ EnableStepModeControl \/ EnableDirectionControl \/ EnableStepControl
    \/ EnableSleepModeControl \/ ApplyModeConfig
    \/ AccessDir \/ AccessStep \/ AccessSleep

SpecDriver == InitDriver /\ [][NextDriver]_vars

(***************************************************************************)
(* Properties of the sleep/wake operation.                                 *)
(***************************************************************************)
Wake == ~fut.sleep_mode_enabled
Sleep == fut.sleep_mode_enabled

OkWrites == SelectSeq(hist.pinWrites, LAMBDA x : x.ok)

\* the level the sleep pin was last written to (as supplied, if never written)
LastWritten ==
    IF OkWrites = <<>> THEN supplied[1].sleep ELSE OkWrites[Len(OkWrites)].level

SetupStart(ok) == [dur |-> "SETUP_TIME", ticks |-> Convert(SETUP_TIME, TIMER_HZ),
                   ok |-> ok]
WakeStart(ok) == [dur |-> "WAKE_UP_TIME", ticks |-> Convert(WAKE_UP_TIME, TIMER_HZ),
                  ok |-> ok]

\* C1 (as stated): no poll returns Ready(Ok) for an operation whose
\* timer.wait() has never returned ready.
C1_NoOkBeforeTimerReady ==
    last.res = "ReadyOk" => hist.waitOks >= 1

\* C1 (amended): a poll returns Ready(Ok) only if timer.wait() returned ready
\* in that same call or the state was already Finished; Finished is reached
\* only after timer.wait() has returned ready or an error, so Ready(Ok) without
\* any ready report happens only after a timer wait error.
C1_OkOnlyAfterTimerReadyOrError ==
    /\ last.res = "ReadyOk" => (last.waited = "Ok" \/ last.pre = "Finished")
    /\ fut.state = "Finished" => hist.waitOks + hist.waitErrs >= 1
    /\ (last.res = "ReadyOk" /\ hist.waitErrs = 0) => hist.waitOks >= 1

C1_Witness ==
    /\ last.res = "ReadyOk" /\ last.pre = "Finished"
    /\ hist.waitOks = 0 /\ hist.waitErrs = 1

C3_SleepScenario ==
    Sleep =>
      /\ (last.pre = "Initial" /\ ~IsErr(last.res)) =>
            /\ last.res = "Pending"
            /\ last.wrote = <<[level |-> "Low", ok |-> TRUE]>>
            /\ last.started = <<SetupStart(TRUE)>>
            /\ fut.driver.sleep = "Low"
            /\ fut.state = "SleepModeSet"
            /\ fut.timer.st = "running" /\ fut.timer.dur = "SETUP_TIME"
      /\ (last.pre = "SleepModeSet" /\ last.waited = "WouldBlock") =>
            last.res = "Pending" /\ fut.state = "SleepModeSet"
      /\ (last.pre = "SleepModeSet" /\ last.waited = "Ok") =>
            last.res = "ReadyOk" /\ fut.state = "Finished"
      /\ \A i \in 1..Len(hist.visited) : hist.visited[i] # "WakingUp"
      /\ \A i \in 1..Len(hist.starts) : hist.starts[i].dur = "SETUP_TIME"

C3_Witness ==
    /\ Sleep /\ faults = 0 /\ hist.pendingAfterOk = FALSE
    /\ last.pre = "SleepModeSet" /\ last.res = "ReadyOk"
    /\ fut.state = "Finished" /\ hist.visited = <<"Initial", "SleepModeSet", "Finished">>

C5_StartFailureInInitial ==
    (last.pre = "Initial" /\ last.started # <<>> /\ ~last.started[1].ok) =>
      /\ last.res = "ErrTimer"
      /\ Len(last.wrote) = 1 /\ last.wrote[1].ok
      /\ last.wrote[1].level = (IF Sleep THEN "Low" ELSE "High")
      /\ Len(OkWrites) = 1
      /\ Len(last.started) = 1
      /\ fut.timer = last.before[1].timer

C5_Witness ==
    /\ last.pre = "Initial" /\ last.res = "ErrTimer"
    /\ last.started = <<SetupStart(FALSE)>>

\* C6 (as stated): once a poll has returned an error, no later poll of the
\* same instance returns Ready(Ok).
C6_ErrorIsTerminal == ~hist.okAfterErr

\* C6 (amended): no failure is absorbed -- a poll call in which the pin
\* access, the pin write, timer.start or timer.wait fails returns the matching
\* Ready(Err) on that same call, and a poll returns an error only then -- but
\* the error is not terminal for the instance: a timer wait error leaves the
\* state Finished, a pin failure leaves it Initial.
C6_ErrorReturnedByThatPoll ==
    /\ last.waited = "Other" => (last.res = "ErrTimer" /\ fut.state = "Finished")
    /\ (\E i \in 1..Len(last.started) : ~last.started[i].ok) => last.res = "ErrTimer"
    /\ (\E i \in 1..Len(last.wrote) : ~last.wrote[i].ok) =>
          (last.res = "ErrPin" /\ fut.state = "Initial")
    /\ last.res = "ErrPinUnavailable" => (fut = last.before[1] /\ last.pre = "Initial")
    /\ last.res = "ErrPin" => \E i \in 1..Len(last.wrote) : ~last.wrote[i].ok
    /\ last.res = "ErrTimer" =>
          \/ last.waited = "Other"
          \/ \E i \in 1..Len(last.started) : ~last.started[i].ok

C6_Witness ==
    /\ hist.okAfterErr /\ last.res = "ReadyOk" /\ last.pre = "Finished"
    /\ hist.waitErrs = 1

\* C7: under the assumption that the timer waited on by the busy loop
\* eventually stops reporting would-block, every call of wait() returns.
C7_WaitTerminates == (pc = "inWait") ~> (pc = "idle" /\ waitRet # "None")

C7_Witness ==
    /\ pc = "idle" /\ waitRet = "ReadyOk" /\ hist.turns = 2
    /\ last.byWait /\ last.pre = "SleepModeSet"

\* C8: wait() returns exactly the result of the first poll of its loop that
\* is not Pending: the loop goes round again only after a Pending poll, and
\* returns the result of the poll that ended it; each turn does to the
\* future, the pin and the timer what one poll call does, and nothing else.
C8_WaitIsPollLoop ==
    /\ (pc = "inWait" /\ hist.turns > 0) => (last.byWait /\ last.res = "Pending")
    /\ pc = "inWait" => waitRet = "None"
    /\ (pc # "inWait" /\ last.byWait) =>
          (waitRet = last.res /\ last.res # "Pending")
    /\ last.byWait =>
          \E in \in Inputs :
             LET o == poll(last.before[1], in)
             IN  /\ o.self = fut /\ o.res = last.res
                 /\ o.wrote = last.wrote /\ o.started = last.started

C8_Witness ==
    /\ pc = "idle" /\ last.byWait /\ hist.turns = 2
    /\ waitRet = "ErrTimer" /\ last.waited = "Other"

\* C9: release() is available whenever the caller is not inside a call (in
\* every state, also after an error), returns exactly the driver and the
\* timer given to new() as the future holds them, and writes no pin and
\* starts no timer: the sleep pin is as poll last wrote it.
C9_ReleaseReturnsSupplied ==
    /\ pc = "idle" => ENABLED Release
    /\ pc = "released" =>
          /\ released = <<fut.driver, fut.timer>>
          /\ released[1].id = supplied[1].id
          /\ released[2].id = supplied[2].id
          /\ released[1].sleep = LastWritten

C9_Witness ==
    /\ pc = "released" /\ hist.reportedErr
    /\ fut.state = "WakingUp" /\ released[1].sleep = "High"
    /\ supplied[1].sleep = "Low"

\* the datasheet constant a timer start was made for
Nanos(dur) == IF dur = "SETUP_TIME" THEN SETUP_TIME ELSE WAKE_UP_TIME

\* ticks at hz last at least ns nanoseconds: ticks * (10^9 / hz) >= ns, with
\* 10^9 / hz in lowest terms
Covers(ticks, hz, ns) ==
    LET g == Gcd(hz, NANOS_HZ)
    IN  ticks * (NANOS_HZ \div g) >= ns * (hz \div g)

\* C14: every duration handed to timer.start by the operation, in ticks at
\* TIMER_HZ, lasts at least as long as the datasheet constant it stands for.
C14_TicksCoverConstant ==
    \A i \in 1..Len(hist.starts) :
       Covers(hist.starts[i].ticks, TIMER_HZ, Nanos(hist.starts[i].dur))

IsPrefix(s, t) == Len(s) <= Len(t) /\ \A i \in 1..Len(s) : s[i] = t[i]

SleepOrder == <<"Initial", "SleepModeSet", "Finished">>
WakeOrder == <<"Initial", "WakingUp", "SleepModeSet", "Finished">>

\* C15 (as stated): over every sequence of polls the state moves only along
\* Initial, SleepModeSet, Finished when entering sleep and along Initial,
\* WakingUp, SleepModeSet, Finished when waking, never backwards, never to
\* Initial again, and never to Finished past SleepModeSet when waking.
C15_PhasesInOrder ==
    IsPrefix(hist.visited, IF Sleep THEN SleepOrder ELSE WakeOrder)

\* C15 (amended): the same, but for one step: when timer.wait() fails in
\* WakingUp the state moves from WakingUp straight to Finished.
C15_PhasesInOrderOrTimerError ==
    \/ IsPrefix(hist.visited, IF Sleep THEN SleepOrder ELSE WakeOrder)
    \/ /\ Wake
       /\ hist.visited = <<"Initial", "WakingUp", "Finished">>
       /\ hist.waitErrs = 1
       /\ \A i \in 1..Len(hist.starts) : hist.starts[i].dur = "WAKE_UP_TIME" =>
                                            ~hist.starts[i].ok

C15_Witness ==
    /\ Wake /\ hist.visited = <<"Initial", "WakingUp", "Finished">>
    /\ last.pre = "WakingUp" /\ last.res = "ErrTimer"

\* C16: there is no timeout of the core's own. A poll in which timer.wait()
\* reports would-block is a poll made in WakingUp or SleepModeSet; it returns
\* Pending and leaves the state, the pin and the running timer as they were
\* (no pin write, no timer start), however many such polls there have been;
\* and as long as no timer.wait() has reported ready or an error, no poll has
\* reported completion and the state is not Finished.
C16_WouldBlockChangesNothing ==
    /\ last.waited = "WouldBlock" =>
          /\ last.pre \in {"WakingUp", "SleepModeSet"}
          /\ last.res = "Pending"
          /\ fut = last.before[1]
          /\ last.wrote = <<>> /\ last.started = <<>>
    /\ (hist.waitOks = 0 /\ hist.waitErrs = 0) =>
          (~hist.reportedOk /\ fut.state # "Finished")

C16_Witness ==
    /\ hist.polls = 2 /\ hist.waitOks = 0 /\ hist.waitErrs = 0
    /\ last.pre = "WakingUp" /\ last.waited = "WouldBlock"
    /\ fut.timer.st = "running" /\ fut.timer.dur = "SETUP_TIME"

\* C17: Finished absorbs. A poll made in Finished returns Ready(Ok), leaves
\* the future as it was, writes no pin, starts no timer and does not ask the
\* timer; once Finished has been entered the state is Finished.
C17_FinishedAbsorbs ==
    /\ last.pre = "Finished" =>
          /\ last.res = "ReadyOk"
          /\ fut = last.before[1]
          /\ fut.state = "Finished"
          /\ last.wrote = <<>> /\ last.started = <<>> /\ last.waited = "none"
    /\ \A i \in 1..Len(hist.visited) :
          hist.visited[i] = "Finished" => (i = Len(hist.visited) /\ fut.state = "Finished")

C17_Witness ==
    /\ last.pre = "Finished" /\ last.res = "ReadyOk" /\ hist.oks = 2
    /\ Sleep /\ hist.waitOks = 1

\* C19: a poll in which timer.wait() returns an error is a poll made in
\* WakingUp or SleepModeSet; it returns Ready(Err(Timer)), the state becomes
\* Finished, no pin is written and the timer is not started again; after such
\* an error in WakingUp the timer has never been running for WAKE_UP_TIME.
C19_TimerWaitError ==
    last.waited = "Other" =>
      /\ last.pre \in {"WakingUp", "SleepModeSet"}
      /\ last.res = "ErrTimer"
      /\ fut = [last.before[1] EXCEPT !.state = "Finished", !.timer.st = "faulted"]
      /\ last.wrote = <<>> /\ last.started = <<>>
      /\ last.pre = "WakingUp" =>
            (/\ fut.timer.dur # "WAKE_UP_TIME"
             /\ \A i \in 1..Len(hist.starts) :
                   hist.starts[i].dur = "WAKE_UP_TIME" => ~hist.starts[i].ok)

C19_Witness ==
    /\ last.waited = "Other" /\ last.pre = "WakingUp"
    /\ fut.state = "Finished" /\ fut.driver.sleep = "High"
    /\ fut.timer.dur = "SETUP_TIME"

\* C20: the sleep pin is written only by a poll made in Initial, and the
\* state leaves Initial exactly when that write succeeds: a failed write
\* returns Ready(Err(Pin)) with the state still Initial and the timer not
\* started; after a good write the state has moved on even if timer.start
\* then fails.  So the pin is written successfully at most once, and only
\* ever to the level chosen at construction.
C20_PinWrittenOnceInInitial ==
    /\ last.wrote # <<>> => (last.pre = "Initial" /\ Len(last.wrote) = 1)
    /\ last.pre = "Initial" =>
          /\ fut.state # "Initial" <=> (last.wrote # <<>> /\ last.wrote[1].ok)
          /\ (last.wrote # <<>> /\ ~last.wrote[1].ok) =>
                (/\ last.res = "ErrPin" /\ last.started = <<>>
                 /\ fut = last.before[1])
          /\ (last.started # <<>> /\ ~last.started[1].ok) =>
                fut.state = (IF Sleep THEN "SleepModeSet" ELSE "WakingUp")
    /\ Len(OkWrites) <= 1
    /\ fut.state = "Initial" <=> OkWrites = <<>>
    /\ \A i \in 1..Len(hist.pinWrites) :
          hist.pinWrites[i].level = (IF Sleep THEN "Low" ELSE "High")

\* a failed write, then a good one whose timer.start fails
C20_Witness ==
    /\ Len(hist.pinWrites) = 2 /\ ~hist.pinWrites[1].ok /\ hist.pinWrites[2].ok
    /\ last.pre = "Initial" /\ last.res = "ErrTimer"
    /\ fut.state = "WakingUp"

(***************************************************************************)
(* Properties of the A4988 driver's composition.                           *)
(***************************************************************************)
\* C10: on every driver reachable from A4988::new() by the enable calls, a
\* capability's operations are available exactly when its pin slots hold
\* output pins, a slot holds a pin only if the capability's pins were handed
\* over, and a call of an operation is accepted only with its pins present.
C10_CapabilityIffPinsPresent ==
    /\ ImplSetStepMode(a4988) <=>
          (IsOutputPin(a4988.reset) /\ IsOutputPin(a4988.mode0)
           /\ IsOutputPin(a4988.mode1) /\ IsOutputPin(a4988.mode2))
    /\ ImplSetDirection(a4988) <=> IsOutputPin(a4988.dir)
    /\ ImplStep(a4988) <=> IsOutputPin(a4988.step)
    /\ ImplSetSleepMode(a4988) <=> IsOutputPin(a4988.sleep)
    /\ ImplSetStepMode(a4988) => "StepMode" \in given
    /\ ImplSetDirection(a4988) => "Direction" \in given
    /\ ImplStep(a4988) => "Step" \in given
    /\ ImplSetSleepMode(a4988) => "SleepMode" \in given
    /\ (lastCall.op = "apply_mode_config" /\ lastCall.accepted) => "StepMode" \in given
    /\ (lastCall.op = "dir" /\ lastCall.accepted) => "Direction" \in given
    /\ (lastCall.op = "step" /\ lastCall.accepted) => "Step" \in given
    /\ (lastCall.op = "sleep" /\ lastCall.accepted) => "SleepMode" \in given

\* direction control is there and usable, step control is not and is refused
C10_Witness ==
    /\ given = {"Direction", "StepMode"}
    /\ ImplSetDirection(a4988) /\ ImplSetStepMode(a4988) /\ ~ImplStep(a4988)
    /\ lastCall.op = "step" /\ ~lastCall.accepted

\* the levels on (mode0, mode1, mode2) of a driver
ModeLevels(d) == <<d.mode0.level, d.mode1.level, d.mode2.level>>

Applied == lastCall.op = "apply_mode_config" /\ lastCall.accepted

\* C11: starting from A4988::new(), each of direction, step, step-mode and
\* sleep control can be enabled whatever the other capabilities are (its trait
\* applies whenever its own slots are still empty); an accepted enable call
\* leaves every other slot as it was; and the slots that hold pins are those
\* of the capabilities enabled, in whatever order.
C11_IndependentlyGateable ==
    /\ IsUnit(a4988.dir) => ImplEnableDirectionControl(a4988)
    /\ IsUnit(a4988.step) => ImplEnableStepControl(a4988)
    /\ IsUnit(a4988.mode0) => ImplEnableStepModeControl(a4988)
    /\ IsUnit(a4988.sleep) => ImplEnableSleepModeControl(a4988)
    /\ (lastCall.accepted /\ lastCall.op = "enable_direction_control") =>
          a4988 = [lastCall.before[1] EXCEPT !.dir = a4988.dir]
    /\ (lastCall.accepted /\ lastCall.op = "enable_step_control") =>
          a4988 = [lastCall.before[1] EXCEPT !.step = a4988.step]
    /\ (lastCall.accepted /\ lastCall.op = "enable_sleep_mode_control") =>
          a4988 = [lastCall.before[1] EXCEPT !.sleep = a4988.sleep]
    /\ (lastCall.accepted /\ lastCall.op = "enable_step_mode_control") =>
          a4988 = [lastCall.before[1] EXCEPT !.reset = a4988.reset,
                      !.mode0 = a4988.mode0, !.mode1 = a4988.mode1,
                      !.mode2 = a4988.mode2]
    /\ IsOutputPin(a4988.dir) <=> "Direction" \in given
    /\ IsOutputPin(a4988.step) <=> "Step" \in given
    /\ IsOutputPin(a4988.mode0) <=> "StepMode" \in given
    /\ IsOutputPin(a4988.sleep) <=> "SleepMode" \in given

\* C12: the mode table gives every StepMode16 value a combination of three
\* pin levels, and no two values the same one; so after a successful
\* apply_mode_config the mode pins identify the mode asked for.
C12_ModeTableTotalInjective ==
    /\ \A m \in StepMode16 :
          /\ Len(ModeTable(m)) = 3
          /\ \A i \in 1..3 : ModeTable(m)[i] \in Levels
    /\ \A m1, m2 \in StepMode16 : ModeTable(m1) = ModeTable(m2) => m1 = m2
    /\ (Applied /\ lastCall.res = "Ok") =>
          \A m \in StepMode16 :
             ModeTable(m) = ModeLevels(a4988) <=> m = lastCall.mode

C12_Witness ==
    /\ Applied /\ lastCall.res = "Ok" /\ lastCall.mode = "M8"
    /\ ModeLevels(a4988) = <<"High", "High", "Low">>
    /\ ModeLevels(lastCall.before[1]) = <<"Low", "High", "Low">>

\* C13: apply_mode_config writes mode0, mode1, mode2 in that order to the
\* levels of the table (M4: Low, High, Low), touches no other slot and no
\* timer, returns the first write failure -- the pins after the failing one
\* are then not written -- and returns success otherwise.
C13_ApplyModeConfig ==
    Applied =>
      LET w == lastCall.wrote
          t == ModeTable(lastCall.mode)
      IN  /\ Len(w) \in 1..3
          /\ \A i \in 1..Len(w) : w[i].pin = ModePins[i] /\ w[i].level = t[i]
          /\ \A i \in 1..(Len(w) - 1) : w[i].ok
          /\ lastCall.res = "Ok" <=> (Len(w) = 3 /\ w[3].ok)
          /\ lastCall.res = "Err" <=> ~w[Len(w)].ok
          /\ lastCall.mode = "M4" => t = <<"Low", "High", "Low">>
          /\ a4988 = [lastCall.before[1] EXCEPT
                         !.mode0.level = a4988.mode0.level,
                         !.mode1.level = a4988.mode1.level,
                         !.mode2.level = a4988.mode2.level]
          /\ \A i \in 1..3 :
                a4988[ModePins[i]].level =
                   IF i <= Len(w) /\ w[i].ok THEN t[i]
                   ELSE lastCall.before[1][ModePins[i]].level
          /\ <<fut, last, hist>> = <<PARKED, NoPoll, NoHist>>

C13_Witness ==
    /\ Applied /\ lastCall.res = "Ok" /\ lastCall.mode = "M4"
    /\ ModeLevels(lastCall.before[1]) = <<"High", "Low", "High">>
    /\ ModeLevels(a4988) = <<"Low", "High", "Low">>

\* C18 (as stated): after apply_mode_config returns, with success or with a
\* pin error, the mode pins hold the whole combination of the mode asked for
\* or the whole combination they held before the call.
C18_AllOrNothing ==
    Applied =>
      \/ ModeLevels(a4988) = ModeTable(lastCall.mode)
      \/ ModeLevels(a4988) = ModeLevels(lastCall.before[1])

\* C18 (amended): mode selection is one call with no wait in it; on success
\* the mode pins hold the whole combination asked for; when write k fails the
\* pins before k hold their new levels and pin k and the pins after it their
\* old ones, which can be a mixture of the two combinations.
C18_PrefixWritten ==
    Applied =>
      LET k == Len(lastCall.wrote)
          t == ModeTable(lastCall.mode)
          old == ModeLevels(lastCall.before[1])
      IN  /\ lastCall.res = "Ok" => ModeLevels(a4988) = t
          /\ lastCall.res = "Err" =>
                ModeLevels(a4988) = [i \in 1..3 |-> IF i < k THEN t[i] ELSE old[i]]

\* from Full, M8 asked for, the write of mode1 fails: the pins encode M2
C18_Witness ==
    /\ Applied /\ lastCall.res = "Err" /\ lastCall.mode = "M8"
    /\ Len(lastCall.wrote) = 2
    /\ ModeLevels(lastCall.before[1]) = ModeTable("Full")
    /\ ModeLevels(a4988) = ModeTable("M2")

====
